---- MODULE Spec2Model ----
(***************************************************************************)
(* Resend Box: the in-memory email store (store.ts), the Resend API mock   *)
(* (POST /emails, resend-api.ts), the web API over the store (/sandbox/*,  *)
(* web-api.ts) and the SMTP listener (smtp-server.ts).                     *)
(*                                                                         *)
(* Representation of JavaScript values:                                    *)
(*   - a value of type  string | undefined  is a sequence of length <= 1:  *)
(*     <<>> is undefined, <<s>> is the string s ("" is the empty string);  *)
(*   - an address is a sequence of one-character strings, so that          *)
(*     substring tests and case folding are computed, <<>> being "";       *)
(*   - a value of type  string | string[] | undefined  is a record         *)
(*     [kind, v] with kind "absent" (v = <<>>), "str" (v = <<address>>)    *)
(*     or "arr" (v = the array of addresses);                              *)
(*   - a value of type  string[] | undefined  is <<>> (undefined) or       *)
(*     <<array>>.                                                          *)
(***************************************************************************)
EXTENDS Integers, Sequences, FiniteSets, TLC

VARIABLES
    emails,     \* store.emails: the collection, in insertion order
    inflight,   \* POST /emails requests suspended at `await renderReactEmail`
    parsing,    \* SMTP DATA phases suspended at `simpleParser(stream)`
    resp,       \* the outcome of the last handler step (the response it sent)
    pre,        \* history: store.emails as it was before the last handler step
    created,    \* history: every record addEmail ever returned, with its request
    removed,    \* history: the ids removeEmail and clearEmails took out of the store
    rejected,   \* history: the sessions that had a DATA phase answered with an error
    inputs,     \* the name of the input sets of this run (fixed by the initial state)
    proc,       \* the process of the start command: alive or exited, and its listeners
    arrivals,   \* history: the producers of the requests in flight, in the order of arrival
    init        \* the init command: its phase, the files of the project, its proposed changes

vars == <<emails, inflight, parsing, resp, pre, created, removed, rejected, inputs, proc, arrivals, init>>

-----------------------------------------------------------------------------
(* Bounds *)

\* records created plus requests in flight, store-centred runs
MaxEmails == 3
\* records created plus requests in flight, payload-centred runs
MaxApiEmails == 1
\* records created plus requests in flight, message-centred runs
MaxSmtpEmails == 1
\* records created plus requests in flight, runs of the start command
MaxCliEmails == 1
\* records created plus requests in flight, runs with promises that settle
MaxLiveEmails == 2

-----------------------------------------------------------------------------
(* JavaScript value helpers *)

Undefined == <<>>
Some(x) == <<x>>

\* !value for a string | undefined
FalsyStr(o) == o = <<>> \/ o[1] = ""

\* a field typed string can hold any JSON value at run time: this token is a
\* JSON number other than 0, a truthy value without the methods of a string
JsonNumber == "42 (a number)"
IsString(x) == x # JsonNumber

Absent == [kind |-> "absent", v |-> <<>>]
Str(a) == [kind |-> "str", v |-> <<a>>]
Arr(as) == [kind |-> "arr", v |-> as]

\* !value for a string | string[] | undefined: undefined and "" are falsy,
\* every array (the empty one included) is truthy
FalsyAddr(f) ==
    \/ f.kind = "absent"
    \/ f.kind = "str" /\ f.v[1] = <<>>

\* String.prototype.toLowerCase, for a string given as its characters
toLowerCaseChar(c) ==
    CASE c = "U" -> "u"
      [] c = "V" -> "v"
      [] c = "X" -> "x"
      [] c = "Y" -> "y"
      [] c = "Z" -> "z"
      [] OTHER   -> c

toLowerCase(str) == [i \in 1..Len(str) |-> toLowerCaseChar(str[i])]

-----------------------------------------------------------------------------
(* store.ts *)

\* createStore
createStore == <<>>

\* nanoid(): a generator of ids that never returns a value it returned before;
\* the n-th call of the process returns n
nanoid(issued) == Len(issued) + 1

\* a variant of addEmail that takes the id from the clock
NewEmailTimestampId(email, issued, now) ==
    [id |-> now, createdAt |-> now] @@ email

\* addEmail: the finalized record
NewEmail(email, issued, now) ==
    [id |-> nanoid(issued), createdAt |-> now] @@ email

\* a variant of addEmail that places the record first: store.emails.unshift
addEmailUnshift(store, newEmail) == <<newEmail>> \o store

\* addEmail: store.emails.push(newEmail)
addEmail(store, newEmail) == Append(store, newEmail)

\* a variant of the comparator that sorts oldest first
compareCreatedAtAscending(a, b) == a.createdAt - b.createdAt

\* the comparator of listEmails: (a, b) => b.createdAt - a.createdAt
compareCreatedAt(a, b) == b.createdAt - a.createdAt

\* Array.prototype.sort is stable: an element is placed before the first
\* element the comparator orders it strictly before
RECURSIVE InsertSorted(_, _)
InsertSorted(x, s) ==
    IF s = <<>> THEN <<x>>
    ELSE IF compareCreatedAt(x, Head(s)) < 0 THEN <<x>> \o s
    ELSE <<Head(s)>> \o InsertSorted(x, Tail(s))

RECURSIVE SortFrom(_, _)
SortFrom(rest, sorted) ==
    IF rest = <<>> THEN sorted
    ELSE SortFrom(Tail(rest), InsertSorted(Head(rest), sorted))

\* listEmails: [...store.emails].sort(...)
listEmails(store) == SortFrom(store, <<>>)

\* a variant of findIndex that takes a stored id the asked id starts with
findIndexStartsWith(store, id) ==
    IF \E i \in 1..Len(store) : store[i].id \in {id, id \div 10}
    THEN CHOOSE i \in 1..Len(store) :
            /\ store[i].id \in {id, id \div 10}
            /\ \A j \in 1..(i - 1) : store[j].id \notin {id, id \div 10}
    ELSE 0

\* store.emails.findIndex(email => email.id === id); 0 stands for -1
findIndex(store, id) ==
    IF \E i \in 1..Len(store) : store[i].id = id
    THEN CHOOSE i \in 1..Len(store) :
            /\ store[i].id = id
            /\ \A j \in 1..(i - 1) : store[j].id # id
    ELSE 0

\* findEmailById: the record, or undefined
findEmailById(store, id) ==
    IF findIndex(store, id) = 0 THEN Undefined
    ELSE Some(store[findIndex(store, id)])

\* a variant of clearEmails that leaves the newest record behind
clearEmailsButLast(store) ==
    IF store = <<>> THEN <<>> ELSE <<store[Len(store)]>>

\* clearEmails
clearEmails(store) == <<>>

\* store.emails.splice(index): a variant that removes up to the end
spliceToEnd(store, index) == SubSeq(store, 1, index - 1)

\* store.emails.splice(index, 1)
splice1(store, index) ==
    SubSeq(store, 1, index - 1) \o SubSeq(store, index + 1, Len(store))

\* removeEmail: the store after the call; the call returns whether it changed
removeEmail(store, id) ==
    IF findIndex(store, id) = 0 THEN store
    ELSE splice1(store, findIndex(store, id))

removeEmailResult(store, id) == findIndex(store, id) # 0

-----------------------------------------------------------------------------
(* react-renderer.ts *)

\* a value of the `react` field: truthy or not, a non-null object or not,
\* its `type` (a string | undefined) and whether it has a truthy `props`
ReactElement(type) == [truthy |-> TRUE, obj |-> TRUE, type |-> type, props |-> TRUE]
ReactOther == [truthy |-> TRUE, obj |-> FALSE, type |-> Undefined, props |-> FALSE]
ReactNull == [truthy |-> FALSE, obj |-> FALSE, type |-> Undefined, props |-> FALSE]

\* a `type` whose conversion to a string throws: the JSON object
\* {"toString": 1, "valueOf": 1}, truthy, with no callable toString or valueOf
UnprintableObject == "{toString: 1, valueOf: 1}"

\* renderReactEmail: the promise is rejected when String(element.type) throws
renderReactEmailRejects(reactElement) ==
    /\ reactElement.obj
    /\ ~FalsyStr(reactElement.type)
    /\ reactElement.props
    /\ reactElement.type[1] = UnprintableObject

\* renderReactEmail: the string the promise resolves with
renderReactEmail(reactElement) ==
    IF reactElement.obj /\ ~FalsyStr(reactElement.type) /\ reactElement.props
    THEN "<div>React email component: " \o reactElement.type[1] \o "</div>"
    ELSE "<div>React email (rendering not fully implemented in V1)</div>"

-----------------------------------------------------------------------------
(* resend-api.ts *)

\* a variant of normalizeArray that returns a single string as it is
normalizeArrayNoWrap(value) ==
    IF FalsyAddr(value) THEN <<>>
    ELSE IF value.kind = "arr" THEN value.v
    ELSE value.v[1]

\* normalizeArray
normalizeArray(value) ==
    IF FalsyAddr(value) THEN <<>>
    ELSE IF value.kind = "arr" THEN value.v
    ELSE <<value.v[1]>>

\* a variant that normalizes an omitted field too, to the empty array
normalizeOptionalAlways(value) == Some(normalizeArray(value))

\* payload.cc ? normalizeArray(payload.cc) : undefined
normalizeOptional(value) ==
    IF ~FalsyAddr(value) THEN Some(normalizeArray(value)) ELSE Undefined

\* a variant of normalizeResendPayload that stores an empty text or html as
\* absent
normalizeResendPayloadDropEmpty(payload) ==
    [source  |-> "resend",
     from    |-> payload.from,
     to      |-> normalizeArray(payload.to),
     cc      |-> normalizeOptional(payload.cc),
     bcc     |-> normalizeOptional(payload.bcc),
     replyTo |-> normalizeOptional(payload.replyTo),
     subject |-> payload.subject,
     text    |-> IF FalsyStr(payload.text) THEN Undefined ELSE payload.text,
     html    |-> IF FalsyStr(payload.html) THEN Undefined ELSE payload.html,
     raw     |-> Undefined]

\* normalizeResendPayload
normalizeResendPayload(payload) ==
    [source  |-> "resend",
     from    |-> payload.from,
     to      |-> normalizeArray(payload.to),
     cc      |-> normalizeOptional(payload.cc),
     bcc     |-> normalizeOptional(payload.bcc),
     replyTo |-> normalizeOptional(payload.replyTo),
     subject |-> payload.subject,
     text    |-> payload.text,
     html    |-> payload.html,
     raw     |-> Undefined]

\* htmlToText: html.replace(...) is a TypeError unless html is a string
htmlToTextThrows(html) == ~IsString(html)

\* logEmailReceived throws when the record has no truthy text and its truthy
\* html makes htmlToText throw
logEmailReceivedThrows(email) ==
    /\ FalsyStr(email.text)
    /\ ~FalsyStr(email.html)
    /\ htmlToTextThrows(email.html[1])

\* the validation of the POST /emails handler
MissingRequired(payload) ==
    FalsyStr(payload.from) \/ FalsyAddr(payload.to) \/ FalsyStr(payload.subject)

\* payload.react && !html
NeedsRender(payload) ==
    /\ payload.react # Undefined
    /\ payload.react[1].truthy
    /\ FalsyStr(payload.html)

\* const { react, ...payloadToStore } = payload
payloadToStore(payload) ==
    [f \in (DOMAIN payload) \ {"react"} |-> payload[f]]

\* value.join(', ')
RECURSIVE Join(_)
Join(values) ==
    IF values = <<>> THEN ""
    ELSE IF Len(values) = 1 THEN values[1]
    ELSE values[1] \o ", " \o Join(Tail(values))

\* a request header value: a string (v = <<s>>), an array of strings or
\* undefined (v = <<>>)
HeaderFalsy(value) ==
    \/ value.kind = "absent"
    \/ value.kind = "str" /\ value.v[1] = ""

\* Object.keys(req.headers).reduce(...): the headers with a truthy value, an
\* array joined with ", "
flattenRequestHeaders(headers) ==
    [key \in {k \in DOMAIN headers : ~HeaderFalsy(headers[k])} |->
        IF headers[key].kind = "arr" THEN Join(headers[key].v)
        ELSE headers[key].v[1]]

\* normalized.raw = { request: { payload: payloadToStore, headers } }
withRawRequest(normalized, payload, headers) ==
    [normalized EXCEPT !.raw =
        Some([request |-> [payload |-> payloadToStore(payload),
                           headers |-> flattenRequestHeaders(headers)]])]

-----------------------------------------------------------------------------
(* new Date(ms).toISOString(): the fields of the ISO-8601 rendering         *)
(* YYYY-MM-DDTHH:mm:ss.sssZ of a count of milliseconds since the epoch      *)
(* (the proleptic Gregorian calendar, UTC)                                  *)

MsPerDay == 24 * 60 * 60 * 1000

civilFromDays(days) ==
    LET z   == days + 719468
        era == z \div 146097
        doe == z - era * 146097
        yoe == (doe - (doe \div 1460) + (doe \div 36524) - (doe \div 146096)) \div 365
        doy == doe - (365 * yoe + (yoe \div 4) - (yoe \div 100))
        mp  == (5 * doy + 2) \div 153
        d   == doy - ((153 * mp + 2) \div 5) + 1
        m   == IF mp < 10 THEN mp + 3 ELSE mp - 9
        y   == yoe + era * 400 + (IF m <= 2 THEN 1 ELSE 0)
    IN  [year |-> y, month |-> m, day |-> d]

\* a variant of toISOString that renders whole seconds only
toISOStringSeconds(ms) ==
    LET date == civilFromDays(ms \div MsPerDay)
        rest == ms % MsPerDay
    IN  [year   |-> date.year,
         month  |-> date.month,
         day    |-> date.day,
         hour   |-> rest \div 3600000,
         minute |-> (rest \div 60000) % 60,
         second |-> (rest \div 1000) % 60,
         millis |-> 0]

toISOString(ms) ==
    LET date == civilFromDays(ms \div MsPerDay)
        rest == ms % MsPerDay
    IN  [year   |-> date.year,
         month  |-> date.month,
         day    |-> date.day,
         hour   |-> rest \div 3600000,
         minute |-> (rest \div 60000) % 60,
         second |-> (rest \div 1000) % 60,
         millis |-> rest % 1000]

-----------------------------------------------------------------------------
(* smtp-server.ts: normalizeSmtpMail                                        *)
(*                                                                          *)
(* A ParsedMail is the value the promise of simpleParser resolves with:     *)
(*   - from is undefined or <<address object>>; to, cc, bcc and replyTo     *)
(*     are records [kind, v] with kind "absent" (v = <<>>), "one" (v =      *)
(*     <<address object>>) or "many" (v = the array of address objects);    *)
(*   - an address object is [value |-> undefined or <<array of entries>>];  *)
(*   - an entry is [address, name] with address a string | undefined, or    *)
(*     NullEntry, an entry that is null;                                    *)
(*   - subject, text, html and textAsHtml are string | undefined (html may  *)
(*     also be false, which is falsy like undefined);                       *)
(*   - headers is the Map of header values.                                 *)

Mailbox(address, name) == [address |-> address, name |-> name]
NullEntry == [null |-> TRUE]
AddressObject(entries) == [value |-> Some(entries)]
NoAddresses == [kind |-> "absent", v |-> <<>>]
One(addrObj) == [kind |-> "one", v |-> <<addrObj>>]
Many(addrObjs) == [kind |-> "many", v |-> addrObjs]

\* addr.address || '' for an entry of a to, cc, bcc or replyTo list, whose
\* address is a sequence of characters
addressOrEmpty(addr) ==
    IF addr.address = Undefined THEN <<>> ELSE addr.address[1]

\* a variant of normalizeAddresses that keeps the first address only
normalizeAddressesFirstOnly(addresses) ==
    IF addresses = Undefined THEN <<>>
    ELSE LET kept == SelectSeq([i \in 1..Len(addresses[1]) |->
                                    addressOrEmpty(addresses[1][i])],
                               LAMBDA a : a # <<>>)
         IN  IF kept = <<>> THEN <<>> ELSE <<kept[1]>>

\* normalizeAddresses: addresses.map(addr => addr.address || '').filter(Boolean)
normalizeAddresses(addresses) ==
    IF addresses = Undefined THEN <<>>
    ELSE SelectSeq([i \in 1..Len(addresses[1]) |-> addressOrEmpty(addresses[1][i])],
                   LAMBDA a : a # <<>>)

RECURSIVE flatMapAddresses(_)
RECURSIVE flatMapAddressesUnfiltered(_)

\* a variant of the flatMap whose lists are not filtered:
\* addresses.map(addr => addr.address || '')
flatMapAddressesUnfiltered(objects) ==
    IF objects = <<>> THEN <<>>
    ELSE (IF Head(objects).value = Undefined THEN <<>>
          ELSE [i \in 1..Len(Head(objects).value[1]) |->
                    addressOrEmpty(Head(objects).value[1][i])])
         \o flatMapAddressesUnfiltered(Tail(objects))

\* objects.flatMap(obj => normalizeAddresses(obj.value))
flatMapAddresses(objects) ==
    IF objects = <<>> THEN <<>>
    ELSE normalizeAddresses(Head(objects).value) \o flatMapAddresses(Tail(objects))

\* normalizeAddressObject
normalizeAddressObject(addrObj) ==
    IF addrObj.kind = "absent" THEN <<>> ELSE flatMapAddresses(addrObj.v)

\* parsed.cc ? normalizeAddressObject(parsed.cc) : undefined
normalizeOptionalAddressObject(addrObj) ==
    IF addrObj.kind # "absent" THEN Some(normalizeAddressObject(addrObj)) ELSE Undefined

\* addr.address is a TypeError when an entry of the list is null
normalizeAddressObjectThrows(addrObj) ==
    \E i \in 1..Len(addrObj.v) :
        /\ addrObj.v[i].value # Undefined
        /\ \E k \in 1..Len(addrObj.v[i].value[1]) : addrObj.v[i].value[1][k] = NullEntry

\* a header value: undefined, null, a string, an array of header values, an
\* object (with its address, name, value and text properties and its JSON
\* text) or another primitive (with its String() text)
HeaderUndefined == [kind |-> "undefined"]
HeaderNull == [kind |-> "null"]
HeaderString(str) == [kind |-> "str", s |-> str]
HeaderArray(items) == [kind |-> "arr", items |-> items]
HeaderObject(address, name, value, text, json) ==
    [kind |-> "obj", address |-> address, name |-> name, value |-> value,
     text |-> text, json |-> json]
HeaderPrimitive(str) == [kind |-> "other", s |-> str]

\* String(value) of an object without a toString of its own
ObjectObject == "[object Object]"

\* normalizeHeaderValue
RECURSIVE normalizeHeaderValue(_)
RECURSIVE normalizeHeaderValues(_)

\* a variant of normalizeHeaderValue that joins an array and converts every
\* other value with String()
normalizeHeaderValueString(value) ==
    CASE value.kind = "undefined" -> "undefined"
      [] value.kind = "null" -> "null"
      [] value.kind = "arr" ->
            Join([i \in 1..Len(value.items) |->
                    IF value.items[i].kind \in {"str", "other"}
                    THEN value.items[i].s ELSE ObjectObject])
      [] value.kind = "obj" -> ObjectObject
      [] OTHER -> value.s

normalizeHeaderValue(value) ==
    CASE value.kind = "undefined" -> "undefined"
      [] value.kind = "null" -> "null"
      [] value.kind = "str" -> value.s
      [] value.kind = "arr" -> Join(normalizeHeaderValues(value.items))
      [] value.kind = "obj" ->
            IF ~FalsyStr(value.address)
            THEN IF ~FalsyStr(value.name)
                 THEN value.name[1] \o " <" \o value.address[1] \o ">"
                 ELSE value.address[1]
            ELSE IF value.value # Undefined THEN normalizeHeaderValue(value.value[1])
            ELSE IF ~FalsyStr(value.text) THEN value.text[1]
            ELSE value.json
      [] OTHER -> value.s

\* value.map(v => normalizeHeaderValue(v))
normalizeHeaderValues(items) ==
    IF items = <<>> THEN <<>>
    ELSE <<normalizeHeaderValue(Head(items))>> \o normalizeHeaderValues(Tail(items))

\* headersObj: every key of parsed.headers with its normalized value
headersObj(headers) == [key \in DOMAIN headers |-> normalizeHeaderValue(headers[key])]

UnknownSender == "unknown@localhost"
NoSubject == "(no subject)"

\* a variant of the from of normalizeSmtpMail without the placeholder
smtpFromNoPlaceholder(parsed) ==
    IF parsed.from = Undefined \/ parsed.from[1].value[1] = <<>> THEN Undefined
    ELSE parsed.from[1].value[1][1].address

\* parsed.from?.value[0]?.address || 'unknown@localhost'
smtpFrom(parsed) ==
    IF \/ parsed.from = Undefined
       \/ parsed.from[1].value[1] = <<>>
       \/ FalsyStr(parsed.from[1].value[1][1].address)
    THEN Some(UnknownSender)
    ELSE parsed.from[1].value[1][1].address

\* parsed.subject || '(no subject)'
smtpSubject(parsed) ==
    IF FalsyStr(parsed.subject) THEN Some(NoSubject) ELSE parsed.subject

\* value || undefined
orUndefined(value) == IF FalsyStr(value) THEN Undefined ELSE value

\* normalizeSmtpMail throws a TypeError when from has no value list or a list
\* of addresses holds an entry that is null
normalizeSmtpMailThrows(parsed) ==
    \/ parsed.from # Undefined /\ parsed.from[1].value = Undefined
    \/ \E f \in {"to", "cc", "bcc", "replyTo"} : normalizeAddressObjectThrows(parsed[f])

\* normalizeSmtpMail
normalizeSmtpMail(parsed) ==
    [source  |-> "smtp",
     from    |-> smtpFrom(parsed),
     to      |-> normalizeAddressObject(parsed.to),
     cc      |-> normalizeOptionalAddressObject(parsed.cc),
     bcc     |-> normalizeOptionalAddressObject(parsed.bcc),
     replyTo |-> normalizeOptionalAddressObject(parsed.replyTo),
     subject |-> smtpSubject(parsed),
     text    |-> orUndefined(parsed.text),
     html    |-> orUndefined(parsed.html),
     raw     |-> Some([headers |-> headersObj(parsed.headers),
                       mime    |-> orUndefined(parsed.textAsHtml)])]

-----------------------------------------------------------------------------
(* Inputs *)

\* addresses, as sequences of characters
UserAtX == <<"U", "@", "x">>
userAtY == <<"u", "@", "y">>
vAtX    == <<"v", "@", "x">>

BasePayload ==
    [from    |-> Some("from@x"),
     to      |-> Str(UserAtX),
     subject |-> Some("Hi"),
     text    |-> Undefined,
     html    |-> Undefined,
     cc      |-> Absent,
     bcc     |-> Absent,
     replyTo |-> Absent,
     react   |-> Undefined]

ReactPayload ==
    [BasePayload EXCEPT !.to = Arr(<<userAtY, vAtX>>),
                        !.react = Some(ReactElement(Some("Welcome")))]

JsonHeaders ==
    [h \in {"content-type", "accept", "x-forwarded-for", "x-empty"} |->
        CASE h = "content-type"    -> [kind |-> "str", v |-> <<"application/json">>]
          [] h = "accept"          -> [kind |-> "absent", v |-> <<>>]
          [] h = "x-forwarded-for" -> [kind |-> "arr", v |-> <<"10.0.0.1", "10.0.0.2">>]
          [] h = "x-empty"         -> [kind |-> "str", v |-> <<"">>]]

\* the values a `to` can take in a JSON body
ToValues ==
    {Absent, Str(<<>>), Str(UserAtX), Arr(<<>>), Arr(<<userAtY>>),
     Arr(<<vAtX, UserAtX>>)}

\* payloads that vary the required fields
RequiredFieldPayloads ==
    {[BasePayload EXCEPT !.to = t] : t \in ToValues}
    \cup {[BasePayload EXCEPT !.from = f] : f \in {Undefined, Some("")}}
    \cup {[BasePayload EXCEPT !.subject = x] : x \in {Undefined, Some("")}}
    \cup {[BasePayload EXCEPT !.from = Undefined, !.to = Absent,
                              !.subject = Undefined]}

\* the values an optional address field takes in a JSON body
OptionalValues ==
    {Absent, Str(<<>>), Str(vAtX), Arr(<<>>), Arr(<<userAtY, vAtX>>)}

\* payloads that vary cc, bcc and replyTo: one field at a time, and all
\* three given as a string
OptionalFieldPayloads ==
    {[BasePayload EXCEPT !.cc = a] : a \in OptionalValues}
    \cup {[BasePayload EXCEPT !.bcc = a] : a \in OptionalValues}
    \cup {[BasePayload EXCEPT !.replyTo = a] : a \in OptionalValues}
    \cup {[BasePayload EXCEPT !.cc = Str(vAtX), !.bcc = Str(userAtY),
                              !.replyTo = Str(UserAtX)],
          [BasePayload EXCEPT !.subject = Some("")]}

StringValues == {Undefined, Some(""), Some("text")}

ReactValues ==
    {Some(ReactNull), Some(ReactOther), Some(ReactElement(Undefined)),
     Some(ReactElement(Some("Welcome"))),
     Some(ReactElement(Some(UnprintableObject)))}

\* payloads that vary text and html, an html that is not a string included
BodyPayloads ==
    {[BasePayload EXCEPT !.text = t, !.html = h] :
        t \in StringValues, h \in StringValues}
    \cup {[BasePayload EXCEPT !.text = t, !.html = Some(JsonNumber)] :
            t \in {Undefined, Some("text")}}
    \cup {[BasePayload EXCEPT !.to = Absent]}

\* payloads that vary react, with and without html
ReactPayloads ==
    {[BasePayload EXCEPT !.react = r, !.html = h] :
        r \in ReactValues, h \in {Undefined, Some("<p>x</p>")}}
    \cup {[BasePayload EXCEPT !.from = Some("")]}

\* the header Map of a parsed message
SmtpHeaders ==
    [h \in {"subject", "from", "sender", "to", "cc", "date", "received", "x-priority"} |->
        CASE h = "subject"    -> HeaderString("Hello")
          [] h = "sender"     ->
                HeaderObject(Some("ann@x"), Some("Ann"), Undefined, Undefined, "{}")
          [] h = "to"         ->
                HeaderObject(Some("u@y"), Some(""), Undefined, Undefined, "{}")
          [] h = "cc"         ->
                HeaderArray(<<HeaderObject(Some("ann@x"), Some("Ann"),
                                           Undefined, Undefined, "{}"),
                              HeaderArray(<<HeaderString("b"),
                                            HeaderObject(Some("u@y"), Undefined,
                                                         Undefined, Undefined, "{}")>>)>>)
          [] h = "date"       ->
                HeaderObject(Undefined, Undefined, Undefined, Undefined,
                             "\"2025-01-01T00:00:00.000Z\"")
          [] h = "from"       ->
                HeaderObject(Undefined, Undefined,
                    Some(HeaderArray(<<HeaderObject(Some("ann@x"), Some("Ann"),
                                                    Undefined, Undefined, "{}")>>)),
                    Some("Ann <ann@x>"), "{}")
          [] h = "received"   -> HeaderArray(<<HeaderString("by a"), HeaderString("by b")>>)
          [] h = "x-priority" -> HeaderPrimitive("1")]

\* From: Ann <ann@x>, To: u@y, Subject: Hello, a text body
PlainMail ==
    [from       |-> Some(AddressObject(<<Mailbox(Some("ann@x"), "Ann")>>)),
     to         |-> One(AddressObject(<<Mailbox(Some(userAtY), "")>>)),
     cc         |-> NoAddresses,
     bcc        |-> NoAddresses,
     replyTo    |-> NoAddresses,
     subject    |-> Some("Hello"),
     text       |-> Some("body"),
     html       |-> Undefined,
     textAsHtml |-> Some("<p>body</p>"),
     headers    |-> SmtpHeaders]

\* the values of from: no From header, a first entry without an address, two
\* addresses
FromValues ==
    {Undefined,
     Some(AddressObject(<<Mailbox(Undefined, "Team")>>)),
     Some(AddressObject(<<Mailbox(Some("bob@y"), ""), Mailbox(Some("ann@x"), "Ann")>>))}

\* the values of to: no To header, a list with entries that have no usable
\* address, several address objects (one without a list), a list with an
\* entry that is null
SmtpToValues ==
    {NoAddresses,
     One(AddressObject(<<Mailbox(Some(vAtX), "V"), Mailbox(Undefined, "Team"),
                         Mailbox(Some(<<>>), ""), Mailbox(Some(UserAtX), "")>>)),
     Many(<<AddressObject(<<Mailbox(Some(userAtY), "")>>), [value |-> Undefined],
            AddressObject(<<Mailbox(Some(vAtX), "")>>)>>),
     One(AddressObject(<<Mailbox(Some(vAtX), ""), NullEntry>>))}

\* parsed messages that vary from, subject, to and the optional fields
ParsedMails ==
    {PlainMail}
    \cup {[PlainMail EXCEPT !.from = f] : f \in FromValues}
    \cup {[PlainMail EXCEPT !.subject = Some("")]}
    \cup {[PlainMail EXCEPT !.to = t] : t \in SmtpToValues}
    \cup {[PlainMail EXCEPT !.cc = One(AddressObject(<<Mailbox(Undefined, "Team"),
                                                        Mailbox(Some(vAtX), ""),
                                                        Mailbox(Some(<<>>), "")>>)),
                            !.bcc = Many(<<AddressObject(<<Mailbox(Some(userAtY), "U"),
                                                           Mailbox(Some(<<>>), "E")>>),
                                           AddressObject(<<Mailbox(Some(vAtX), "")>>)>>),
                            !.replyTo = One(AddressObject(<<Mailbox(Undefined, "Team")>>)),
                            !.text = Some(""),
                            !.html = Some("<p>body</p>"),
                            !.textAsHtml = Undefined],
          [PlainMail EXCEPT !.from = Some(AddressObject(<<>>)),
                            !.subject = Undefined]}

\* a message stream: what the promise of simpleParser(stream) settles with
Parses(parsed) == [settles |-> "resolved", parsed |-> parsed]
Unparsable == [settles |-> "rejected", parsed |-> PlainMail]

\* the sessions of the SMTP listener
Session1 == [id |-> 1, remoteAddress |-> Some("127.0.0.1")]
Session2 == [id |-> 2, remoteAddress |-> Undefined]

\* the addresses of MAIL FROM and RCPT TO commands
EnvelopeAddresses ==
    {[address |-> a] : a \in {Some("ann@x"), Some("")}}

\* store-centred runs: few payloads, more records
StoreInputs ==
    [payloads |-> {ReactPayload, [BasePayload EXCEPT !.subject = Undefined]},
     clock    |-> {1000, 2000},
     filters  |-> {Undefined, Some(<<"@", "X">>), Some(<<"z">>)},
     streams  |-> {Parses(PlainMail)},
     sessions |-> {Session1},
     envelope |-> {[address |-> Some("ann@x")]},
     cap      |-> MaxEmails]

\* the families of payload shapes
ApiFamilies ==
    [required |-> RequiredFieldPayloads,
     optional |-> OptionalFieldPayloads,
     body     |-> BodyPayloads,
     react    |-> ReactPayloads]

\* payload-centred runs: one family of payload shapes, few records
ApiInputs ==
    [family \in DOMAIN ApiFamilies |->
        [payloads |-> ApiFamilies[family] \cup {ReactPayload},
         clock    |-> {86399999, 90061001},
         filters  |-> {Undefined, Some(<<"u">>)},
         streams  |-> {Parses(PlainMail)},
         sessions |-> {Session1},
         envelope |-> {[address |-> Some("ann@x")]},
         cap      |-> MaxApiEmails]]

\* message-centred runs: every parsed message, few records
SmtpInputs ==
    [payloads |-> {ReactPayload},
     clock    |-> {1000},
     filters  |-> {Undefined},
     streams  |-> {Parses(parsed) : parsed \in ParsedMails} \cup {Unparsable},
     sessions |-> {Session1, Session2},
     envelope |-> EnvelopeAddresses,
     cap      |-> MaxSmtpEmails]

\* runs of the start command from its first step: one payload, one message
CliInputs ==
    [payloads |-> {ReactPayload},
     clock    |-> {1000},
     filters  |-> {Undefined},
     streams  |-> {Parses(PlainMail)},
     sessions |-> {Session1},
     envelope |-> {[address |-> Some("ann@x")]},
     cap      |-> MaxCliEmails]

\* runs with promises that settle: requests answered 200, 400 and 500, a
\* message that parses
LiveInputs ==
    [payloads |-> {ReactPayload,
                   [BasePayload EXCEPT !.subject = Undefined],
                   [BasePayload EXCEPT !.html = Some(JsonNumber)]},
     clock    |-> {1000},
     filters  |-> {Undefined},
     streams  |-> {Parses(PlainMail)},
     sessions |-> {Session1},
     envelope |-> {[address |-> Some("ann@x")]},
     cap      |-> MaxLiveEmails]

\* the input sets of the run
Inputs ==
    CASE inputs = "store" -> StoreInputs
      [] inputs = "smtp"  -> SmtpInputs
      [] inputs = "cli"   -> CliInputs
      [] inputs = "live"  -> LiveInputs
      [] OTHER            -> ApiInputs[inputs]

\* an id that is never in use and has the first id issued as a proper prefix
\* (ids read as decimal numerals)
LongerId == 10 * nanoid(<<>>)

\* the ids a client may ask for: every id in use, and LongerId
Ids == (1..Inputs.cap) \cup {LongerId}

-----------------------------------------------------------------------------
(* The process of the start command (cli.ts) *)

\* after the start action ran: app.listen and server.listen were called and
\* neither port is bound yet
Starting == [alive |-> TRUE, http |-> "binding", smtp |-> "binding"]

\* both listeners are bound
Running == [alive |-> TRUE, http |-> "listening", smtp |-> "listening"]

\* the process runs and the listener accepts connections
Serving(listener) == proc.alive /\ proc[listener] = "listening"

-----------------------------------------------------------------------------
(* POST /emails (resend-api.ts) *)

MissingFieldsMessage == "Missing required fields: from, to, subject"

InternalErrorMessage == "Internal server error"

\* the handler from `const normalized = ...` to its response: 200, or 500
RemoveAt(seq, k) == SubSeq(seq, 1, k - 1) \o SubSeq(seq, k + 1, Len(seq))

\* the place, among the requests in flight, of the i-th suspended request of
\* a producer: 1 for the request that arrived first
ArrivalOf(producer, i) ==
    CHOOSE k \in 1..Len(arrivals) :
        /\ arrivals[k] = producer
        /\ Cardinality({j \in 1..k : arrivals[j] = producer}) = i

\* a variant of the handler whose catch block logs the error and sends no
\* response
StoreAndRespondCatchSilent(req, html, now) ==
    LET normalized == withRawRequest(
                          normalizeResendPayload([req.payload EXCEPT !.html = html]),
                          req.payload, req.headers)
    IN  \E email \in {NewEmail(normalized, created, now)} :
        /\ emails' = addEmail(emails, email)
        /\ created' = Append(created, [email |-> email, payload |-> req.payload])
        /\ resp' = IF logEmailReceivedThrows(email)
                   THEN [op |-> "post", status |-> 0, req |-> req.payload]
                   ELSE [op     |-> "post",
                         status |-> 200,
                         req    |-> req.payload,
                         arrival |-> req.arrival,
                         body   |-> [id         |-> email.id,
                                     created_at |-> toISOString(email.createdAt),
                                     to         |-> email.to,
                                     from       |-> email.from]]

\* from the catch block when logEmailReceived throws after addEmail
StoreAndRespond(req, html, now) ==
    LET normalized == withRawRequest(
                          normalizeResendPayload([req.payload EXCEPT !.html = html]),
                          req.payload, req.headers)
    IN  \E email \in {NewEmail(normalized, created, now)} :
        /\ emails' = addEmail(emails, email)
        /\ created' = Append(created, [email |-> email, payload |-> req.payload])
        /\ resp' = IF logEmailReceivedThrows(email)
                   THEN [op     |-> "post",
                         status |-> 500,
                         req    |-> req.payload,
                         arrival |-> req.arrival,
                         body   |-> [message |-> InternalErrorMessage]]
                   ELSE [op     |-> "post",
                         status |-> 200,
                         req    |-> req.payload,
                         arrival |-> req.arrival,
                         body   |-> [id         |-> email.id,
                                     created_at |-> toISOString(email.createdAt),
                                     to         |-> email.to,
                                     from       |-> email.from]]

\* the handler up to its response or its first suspension
PostEmails ==
    \E payload \in Inputs.payloads :
        LET req == [payload |-> payload, headers |-> JsonHeaders, arrival |-> 0] IN
        /\ Serving("http")
        /\ pre' = emails
        /\ UNCHANGED <<parsing, removed, rejected, inputs, proc, init>>
        /\ IF MissingRequired(payload)
           THEN /\ resp' = [op     |-> "post",
                            status |-> 400,
                            req    |-> payload,
                            body   |-> [message |-> MissingFieldsMessage]]
                /\ UNCHANGED <<emails, inflight, created, arrivals>>
           ELSE /\ Len(created) + Len(inflight) + Len(parsing) < Inputs.cap
                /\ IF NeedsRender(payload)
                   THEN /\ inflight' = Append(inflight, req)
                        /\ arrivals' = Append(arrivals, "api")
                        /\ resp' = [op |-> "post", status |-> 0, req |-> payload]
                        /\ UNCHANGED <<emails, created>>
                   ELSE /\ \E now \in Inputs.clock :
                                StoreAndRespond([req EXCEPT !.arrival = Len(arrivals) + 1],
                                                payload.html, now)
                        /\ UNCHANGED <<inflight, arrivals>>

\* a variant of the handler without the try/catch around the rendering: a
\* rejected promise reaches the outer catch block
RenderSettledNoCatch ==
    \E i \in 1..Len(inflight), now \in Inputs.clock :
        /\ proc.alive
        /\ pre' = emails
        /\ inflight' = RemoveAt(inflight, i)
        /\ arrivals' = RemoveAt(arrivals, ArrivalOf("api", i))
        /\ IF renderReactEmailRejects(inflight[i].payload.react[1])
           THEN /\ resp' = [op     |-> "post",
                            status |-> 500,
                            req    |-> inflight[i].payload,
                            body   |-> [message |-> InternalErrorMessage]]
                /\ UNCHANGED <<emails, created>>
           ELSE StoreAndRespond([inflight[i] EXCEPT !.arrival = ArrivalOf("api", i)],
                                Some(renderReactEmail(inflight[i].payload.react[1])), now)
        /\ UNCHANGED <<parsing, removed, rejected, inputs, proc, init>>

\* the handler resumed when the promise of renderReactEmail settles: html is
\* the rendering, or stays as it was when the promise is rejected
RenderSettled ==
    \E i \in 1..Len(inflight), now \in Inputs.clock :
        /\ proc.alive
        /\ pre' = emails
        /\ inflight' = RemoveAt(inflight, i)
        /\ arrivals' = RemoveAt(arrivals, ArrivalOf("api", i))
        /\ StoreAndRespond([inflight[i] EXCEPT !.arrival = ArrivalOf("api", i)],
                           IF renderReactEmailRejects(inflight[i].payload.react[1])
                           THEN inflight[i].payload.html
                           ELSE Some(renderReactEmail(inflight[i].payload.react[1])),
                           now)
        /\ UNCHANGED <<parsing, removed, rejected, inputs, proc, init>>

-----------------------------------------------------------------------------
(* /sandbox (web-api.ts) *)

httpPort == 4657
smtpPort == 1025

NotFound == [error |-> "Email not found"]

\* a variant of the web API that keeps a copy of the collection, taken before
\* the last step, and lists the copy
GetEmailsBodyOfCopy(store) == listEmails(pre)

\* GET /sandbox/emails: the emails of the response; the handler does not read
\* req.query
GetEmailsBody(store) == listEmails(store)

\* a variant of GET /sandbox/emails that sorts the collection of the store
\* itself
GetEmailsSortsInPlace ==
    \E to \in Inputs.filters :
        /\ Serving("http")
        /\ emails' = listEmails(emails)
        /\ resp' = [op     |-> "list",
                    status |-> 200,
                    to     |-> to,
                    body   |-> [emails |-> GetEmailsBody(emails)]]
        /\ pre' = emails
        /\ UNCHANGED <<inflight, parsing, created, removed, rejected, inputs, proc, arrivals, init>>

\* GET /sandbox/emails, with the query parameter `to` of the request
GetEmails ==
    \E to \in Inputs.filters :
        /\ Serving("http")
        /\ resp' = [op     |-> "list",
                    status |-> 200,
                    to     |-> to,
                    body   |-> [emails |-> GetEmailsBody(emails)]]
        /\ pre' = emails
        /\ UNCHANGED <<emails, inflight, parsing, created, removed, rejected, inputs, proc, arrivals, init>>

\* GET /sandbox/emails/:id: the response
GetEmailResponse(store, id) ==
    IF findEmailById(store, id) = Undefined
    THEN [op |-> "get", status |-> 404, id |-> id, body |-> NotFound]
    ELSE [op |-> "get", status |-> 200, id |-> id,
          body |-> [email |-> findEmailById(store, id)[1]]]

\* a variant of GET /sandbox/emails/:id that drops `raw` from the record it
\* found before it answers
GetEmailDropsRaw ==
    \E id \in Ids :
        /\ Serving("http")
        /\ emails' = IF findIndex(emails, id) = 0 THEN emails
                     ELSE [emails EXCEPT ![findIndex(emails, id)].raw = Undefined]
        /\ resp' = GetEmailResponse(emails', id)
        /\ pre' = emails
        /\ UNCHANGED <<inflight, parsing, created, removed, rejected, inputs, proc, arrivals, init>>

\* GET /sandbox/emails/:id
GetEmail ==
    \E id \in Ids :
        /\ Serving("http")
        /\ resp' = GetEmailResponse(emails, id)
        /\ pre' = emails
        /\ UNCHANGED <<emails, inflight, parsing, created, removed, rejected, inputs, proc, arrivals, init>>

\* DELETE /sandbox/emails
DeleteEmails ==
    /\ Serving("http")
    /\ emails' = clearEmails(emails)
    /\ resp' = [op |-> "clear", status |-> 200,
                body |-> [message |-> "All emails cleared"]]
    /\ pre' = emails
    /\ removed' = removed \cup {emails[i].id : i \in 1..Len(emails)}
    /\ UNCHANGED <<inflight, parsing, created, rejected, inputs, proc, arrivals, init>>

\* DELETE /sandbox/emails/:id
DeleteEmail ==
    \E id \in Ids :
        /\ Serving("http")
        /\ emails' = removeEmail(emails, id)
        /\ resp' = IF removeEmailResult(emails, id)
                   THEN [op |-> "delete", status |-> 200, id |-> id,
                         body |-> [message |-> "Email deleted"]]
                   ELSE [op |-> "delete", status |-> 404, id |-> id, body |-> NotFound]
        /\ pre' = emails
        /\ removed' = IF removeEmailResult(emails, id) THEN removed \cup {id} ELSE removed
        /\ UNCHANGED <<inflight, parsing, created, rejected, inputs, proc, arrivals, init>>

\* GET /sandbox/config
GetConfig ==
    /\ Serving("http")
    /\ resp' = [op |-> "config", status |-> 200,
                body |-> [httpPort |-> httpPort, smtpPort |-> smtpPort]]
    /\ pre' = emails
    /\ UNCHANGED <<emails, inflight, parsing, created, removed, rejected, inputs, proc, arrivals, init>>

-----------------------------------------------------------------------------
(* The SMTP listener (smtp-server.ts: createSmtpServer) *)

\* onConnect: callback()
SmtpConnect ==
    \E session \in Inputs.sessions :
        /\ Serving("smtp")
        /\ resp' = [op |-> "connect", session |-> session.id, accepted |-> TRUE]
        /\ pre' = emails
        /\ UNCHANGED <<emails, inflight, parsing, created, removed, rejected, inputs, proc, arrivals, init>>

\* onMailFrom: callback()
SmtpMailFrom ==
    \E session \in Inputs.sessions, address \in Inputs.envelope :
        /\ Serving("smtp")
        /\ resp' = [op |-> "mail", session |-> session.id, address |-> address,
                    accepted |-> TRUE]
        /\ pre' = emails
        /\ UNCHANGED <<emails, inflight, parsing, created, removed, rejected, inputs, proc, arrivals, init>>

\* a variant of onRcptTo that rejects an empty recipient address
SmtpRcptToNonEmpty ==
    \E session \in Inputs.sessions, address \in Inputs.envelope :
        /\ Serving("smtp")
        /\ resp' = [op |-> "rcpt", session |-> session.id, address |-> address,
                    accepted |-> ~FalsyStr(address.address)]
        /\ pre' = emails
        /\ UNCHANGED <<emails, inflight, parsing, created, removed, rejected, inputs, proc, arrivals, init>>

\* onRcptTo: callback()
SmtpRcptTo ==
    \E session \in Inputs.sessions, address \in Inputs.envelope :
        /\ Serving("smtp")
        /\ resp' = [op |-> "rcpt", session |-> session.id, address |-> address,
                    accepted |-> TRUE]
        /\ pre' = emails
        /\ UNCHANGED <<emails, inflight, parsing, created, removed, rejected, inputs, proc, arrivals, init>>

\* onData up to the suspension at simpleParser(stream)
SmtpData ==
    \E session \in Inputs.sessions, stream \in Inputs.streams :
        /\ Serving("smtp")
        /\ Len(created) + Len(inflight) + Len(parsing) < Inputs.cap
        /\ parsing' = Append(parsing, [session |-> session.id, stream |-> stream])
        /\ arrivals' = Append(arrivals, "smtp")
        /\ resp' = [op |-> "data-begin", session |-> session.id, stream |-> stream]
        /\ pre' = emails
        /\ UNCHANGED <<emails, inflight, created, removed, rejected, inputs, proc, init>>

\* a variant of the two catch blocks that logs the error and does not call
\* the callback
SmtpRejectNoCallback(data) ==
    /\ resp' = [op |-> "data", session |-> data.session, stream |-> data.stream,
                accepted |-> FALSE, callbacks |-> 0]
    /\ rejected' = rejected \cup {data.session}
    /\ UNCHANGED <<emails, created>>

\* callback(err): the DATA phase is answered with an error
SmtpReject(data) ==
    /\ resp' = [op |-> "data", session |-> data.session, stream |-> data.stream,
                accepted |-> FALSE, callbacks |-> 1]
    /\ rejected' = rejected \cup {data.session}
    /\ UNCHANGED <<emails, created>>

\* a variant of onData that stores the message before it normalizes it
SmtpParsedStoresFirst ==
    \E i \in 1..Len(parsing), now \in Inputs.clock :
        /\ proc.alive
        /\ pre' = emails
        /\ parsing' = RemoveAt(parsing, i)
        /\ arrivals' = RemoveAt(arrivals, ArrivalOf("smtp", i))
        /\ IF parsing[i].stream.settles = "rejected"
           THEN SmtpReject(parsing[i])
           ELSE LET normalized == IF normalizeSmtpMailThrows(parsing[i].stream.parsed)
                                  THEN normalizeSmtpMail(PlainMail)
                                  ELSE normalizeSmtpMail(parsing[i].stream.parsed)
                    email == NewEmail(normalized, created, now)
                IN  /\ emails' = addEmail(emails, email)
                    /\ created' = Append(created,
                            [email |-> email, payload |-> parsing[i].stream.parsed])
                    /\ resp' = [op |-> "data", session |-> parsing[i].session,
                                stream |-> parsing[i].stream,
                                accepted |-> ~normalizeSmtpMailThrows(parsing[i].stream.parsed),
                                callbacks |-> 1]
                    /\ rejected' = IF normalizeSmtpMailThrows(parsing[i].stream.parsed)
                                   THEN rejected \cup {parsing[i].session}
                                   ELSE rejected
        /\ UNCHANGED <<inflight, removed, inputs, proc, init>>

\* onData resumed when the promise of simpleParser settles: a rejection goes
\* to .catch, a throw of normalizeSmtpMail to the catch block, and a parsed
\* message is normalized, added and acknowledged with callback()
SmtpParsed ==
    \E i \in 1..Len(parsing) :
        /\ proc.alive
        /\ pre' = emails
        /\ parsing' = RemoveAt(parsing, i)
        /\ arrivals' = RemoveAt(arrivals, ArrivalOf("smtp", i))
        /\ IF \/ parsing[i].stream.settles = "rejected"
              \/ normalizeSmtpMailThrows(parsing[i].stream.parsed)
           THEN SmtpReject(parsing[i])
           ELSE \E now \in Inputs.clock :
                LET email == NewEmail(normalizeSmtpMail(parsing[i].stream.parsed),
                                      created, now)
                IN  /\ emails' = addEmail(emails, email)
                    /\ created' = Append(created,
                            [email |-> email, payload |-> parsing[i].stream.parsed])
                    /\ resp' = [op |-> "data", session |-> parsing[i].session,
                                stream |-> parsing[i].stream, accepted |-> TRUE,
                                callbacks |-> 1,
                                arrival |-> ArrivalOf("smtp", i)]
                    /\ UNCHANGED rejected
        /\ UNCHANGED <<inflight, removed, inputs, proc, init>>

-----------------------------------------------------------------------------
(* Listeners and transport faults (cli.ts, smtp-server.ts) *)

\* the codes of the errors a server emits: the port is in use (emitted while
\* the listener binds), or another error
ErrorCodes == {"EADDRINUSE", "ECONNRESET"}

\* the faults of a socket of the SMTP listener
SocketFaults == {"error", "timeout", "close"}

\* a handler that logs: the store and the requests in flight stay as they are
Logged(source, code) ==
    /\ resp' = [op |-> "fault", source |-> source, code |-> code, proc |-> proc]
    /\ pre' = emails
    /\ UNCHANGED <<emails, inflight, parsing, created, removed, rejected, inputs, arrivals, init>>

\* the callback of app.listen: the HTTP port is bound
HttpListening ==
    /\ proc.alive
    /\ proc.http = "binding"
    /\ proc' = [proc EXCEPT !.http = "listening"]
    /\ resp' = [op |-> "listening", source |-> "http"]
    /\ pre' = emails
    /\ UNCHANGED <<emails, inflight, parsing, created, removed, rejected, inputs, arrivals, init>>

\* server.on('error') of the HTTP server: EADDRINUSE is logged and followed by
\* process.exit(1), another error is logged
HttpServerError ==
    \E code \in ErrorCodes :
        /\ proc.alive
        /\ proc.http = (IF code = "EADDRINUSE" THEN "binding" ELSE "listening")
        /\ proc' = IF code = "EADDRINUSE"
                   THEN [proc EXCEPT !.alive = FALSE, !.http = "failed"]
                   ELSE proc
        /\ Logged("http", code)

\* server.on('clientError'): logged, the socket is answered 400 and ended
HttpClientError ==
    /\ Serving("http")
    /\ Logged("http client", "HPE_INVALID_METHOD")
    /\ UNCHANGED proc

\* the callback of server.listen of the SMTP server: the SMTP port is bound
SmtpListening ==
    /\ proc.alive
    /\ proc.smtp = "binding"
    /\ proc' = [proc EXCEPT !.smtp = "listening"]
    /\ resp' = [op |-> "listening", source |-> "smtp"]
    /\ pre' = emails
    /\ UNCHANGED <<emails, inflight, parsing, created, removed, rejected, inputs, arrivals, init>>

\* server.on('error') and listener.on('error') of the SMTP server: every
\* error is logged; with EADDRINUSE the port stays unbound
SmtpServerError ==
    \E code \in ErrorCodes :
        /\ proc.alive
        /\ proc.smtp = (IF code = "EADDRINUSE" THEN "binding" ELSE "listening")
        /\ proc' = IF code = "EADDRINUSE" THEN [proc EXCEPT !.smtp = "failed"] ELSE proc
        /\ Logged("smtp", code)

\* socket.on('error' | 'timeout' | 'close') of a connection of the SMTP
\* listener: logged
SmtpSocketFault ==
    \E fault \in SocketFaults :
        /\ Serving("smtp")
        /\ Logged("smtp socket", fault)
        /\ UNCHANGED proc

\* process.on('uncaughtException' | 'unhandledRejection'): logged
UncaughtException ==
    /\ proc.alive
    /\ Logged("process", "uncaughtException")
    /\ UNCHANGED proc

-----------------------------------------------------------------------------
(* The init command (init.ts)                                               *)
(*                                                                          *)
(* A file content is the sequence of its lines, content.split('\n'): the    *)
(* empty content is one empty line, and a content that ends with a newline  *)
(* has an empty last line.  A line of an env file is its key and its value  *)
(* (the text after KEY=, a sequence of tokens where " " is white space); a  *)
(* line of config.toml is its text and whether it starts with "[".          *)
(* The projects have no Dockerfile and no docker-compose.yml, and the       *)
(* directory supabase exists exactly when supabase/config.toml does.        *)

\* the runs of init in one project
MaxInitRuns == 2

EnvLine(key, value) == [key |-> key, value |-> value]
BlankEnvLine == EnvLine("", <<>>)

TomlHeader(text) == [text |-> text, header |-> TRUE]
TomlKey(text) == [text |-> text, header |-> FALSE]
BlankTomlLine == TomlKey("")

\* content is truthy: it is not ''
NonEmptyContent(content, blank) == content # <<blank>>

\* content.endsWith('\n')
endsWithNewline(content, blank) ==
    Len(content) >= 2 /\ content[Len(content)] = blank

\* `${content}${newLine}` with newLine = content && !content.endsWith('\n') ? '\n' : '',
\* as the lines before the text that is appended
WithNewLine(content, blank) ==
    IF ~NonEmptyContent(content, blank) THEN <<>>
    ELSE IF endsWithNewline(content, blank) THEN SubSeq(content, 1, Len(content) - 1)
    ELSE content

\* a variant of askConfirmation that takes the empty answer for a yes
askConfirmationDefaultYes(answer) ==
    toLowerCase(answer) \in {<<>>, <<"y">>, <<"y", "e", "s">>}

\* askConfirmation: answer.toLowerCase() === 'y' || answer.toLowerCase() === 'yes'
askConfirmation(answer) ==
    toLowerCase(answer) \in {<<"y">>, <<"y", "e", "s">>}

\* detectSmtpHost
detectSmtpHost(files) ==
    IF files.supabaseToml # Undefined THEN "host.docker.internal" ELSE "127.0.0.1"

\* getPorts, with RESEND_SANDBOX_HTTP_PORT and RESEND_SANDBOX_SMTP_PORT unset
getPorts == [httpPort |-> "4657", smtpPort |-> "1025"]

\* value.trim(): the text from its first to its last character that is not
\* white space
trim(value) ==
    LET kept == {i \in 1..Len(value) : value[i] # " "}
    IN  IF kept = {} THEN <<>>
        ELSE SubSeq(value, CHOOSE i \in kept : \A j \in kept : i <= j,
                           CHOOSE i \in kept : \A j \in kept : i >= j)

\* the first match of a regular expression without the g flag: the least of
\* the indices where it matches, or otherwise when it matches nowhere
FirstMatch(matches, otherwise) ==
    IF matches = {} THEN otherwise
    ELSE CHOOSE i \in matches : \A j \in matches : i <= j

\* getOrGenerateApiKey: the value of the first line RESEND_API_KEY=(.+),
\* trimmed, or the key that nanoid generates
getOrGenerateApiKey(content, generated) ==
    LET i == FirstMatch({k \in 1..Len(content) :
                            /\ content[k].key = "RESEND_API_KEY"
                            /\ content[k].value # <<>>}, 0)
    IN  IF i = 0 THEN generated ELSE trim(content[i].value)

\* updateEnvVar: the first line ^KEY=.*$ is replaced, or the line is appended
updateEnvVar(content, key, value) ==
    LET i == FirstMatch({k \in 1..Len(content) : content[k].key = key}, 0)
    IN  IF i # 0
        THEN [content |-> [content EXCEPT ![i] = EnvLine(key, value)],
              updated |-> TRUE]
        ELSE [content |-> WithNewLine(content, BlankEnvLine)
                            \o <<EnvLine(key, value), BlankEnvLine>>,
              updated |-> FALSE]

\* updateEnvVars: entries is Object.entries(vars)
RECURSIVE updateEnvVars(_, _)
updateEnvVars(content, entries) ==
    IF entries = <<>> THEN [content |-> content, newVars |-> <<>>, updatedVars |-> <<>>]
    ELSE LET result == updateEnvVar(content, Head(entries)[1], Head(entries)[2])
             rest   == updateEnvVars(result.content, Tail(entries))
         IN  [content     |-> rest.content,
              newVars     |-> (IF result.updated THEN <<>> ELSE <<Head(entries)[1]>>)
                                \o rest.newVars,
              updatedVars |-> (IF result.updated THEN <<Head(entries)[1]>> ELSE <<>>)
                                \o rest.updatedVars]

\* the envVars of analyzeChanges and applyChanges, with no --base-url
envVars(apiKey, smtpHost) ==
    <<<<"RESEND_API_KEY", apiKey>>,
      <<"RESEND_BASE_URL", <<"http://127.0.0.1:" \o getPorts.httpPort>>>>,
      <<"SMTP_HOST", <<smtpHost>>>>,
      <<"SMTP_PORT", <<getPorts.smtpPort>>>>,
      <<"SMTP_USER", <<"admin">>>>,
      <<"SMTP_PASSWORD", <<"admin">>>>,
      <<"SMTP_ADMIN_EMAIL", <<"\"no-reply@sandbox.local\"">>>>,
      <<"SMTP_SENDER_NAME", <<"\"Sandbox\"">>>>>>

\* findConfigToml: supabase/config.toml, then config.toml, then null
findConfigToml(files) ==
    IF files.supabaseToml # Undefined THEN Some("supabaseToml")
    ELSE IF files.rootToml # Undefined THEN Some("rootToml")
    ELSE Undefined

SmtpSectionHeader == TomlHeader("[auth.email.smtp]")

\* smtpSection of updateConfigToml
smtpSection ==
    <<SmtpSectionHeader,
      TomlKey("enabled = true"),
      TomlKey("host = \"env(SMTP_HOST)\""),
      TomlKey("port = \"env(SMTP_PORT)\""),
      TomlKey("user = \"env(SMTP_USER)\""),
      TomlKey("pass = \"env(SMTP_PASSWORD)\""),
      TomlKey("admin_email = \"env(SMTP_ADMIN_EMAIL)\""),
      TomlKey("sender_name = \"env(SMTP_SENDER_NAME)\"")>>

\* smtpSectionRegex: the first line [auth.email.smtp] that a newline follows,
\* 0 when there is none
smtpSectionStart(content) ==
    FirstMatch({i \in 1..(Len(content) - 1) : content[i] = SmtpSectionHeader}, 0)

\* smtpSectionRegex: the match ends before the first later line that starts
\* with "[" or is empty, or at the end of the content (Len(content) + 1)
smtpSectionEnd(content, start) ==
    FirstMatch({j \in (start + 1)..Len(content) :
                    content[j].header \/ content[j] = BlankTomlLine},
               Len(content) + 1)

\* the end of the [auth] section: the first later line that starts with "["
\* and is longer than one character, or the end of the lines
authEndIndex(content, authStart) ==
    FirstMatch({i \in (authStart + 1)..Len(content) : content[i].header},
               Len(content) + 1)

\* updateConfigToml
updateConfigToml(content) ==
    LET start     == smtpSectionStart(content)
        authStart == FirstMatch({i \in 1..Len(content) :
                                    content[i] = TomlHeader("[auth]")}, 0)
    IN  IF start # 0
        THEN LET end == smtpSectionEnd(content, start)
             IN  [content |-> SubSeq(content, 1, start - 1) \o smtpSection
                                \o (IF end > Len(content) THEN <<BlankTomlLine>>
                                    ELSE SubSeq(content, end, Len(content))),
                  action  |-> "update"]
        ELSE IF authStart # 0
        THEN LET end    == authEndIndex(content, authStart)
                 before == SubSeq(content, 1, end - 1)
                 after  == SubSeq(content, end, Len(content))
             IN  [content |-> WithNewLine(before, BlankTomlLine) \o smtpSection \o after,
                  action  |-> "append"]
        ELSE [content |-> WithNewLine(content, BlankTomlLine) \o smtpSection
                            \o <<BlankTomlLine>>,
              action  |-> "append"]

\* envTargetPath: .env.local when it exists, .env otherwise
envTargetPath(files) == IF files.envLocal # Undefined THEN "envLocal" ELSE "env"

AllEnvKeys == [i \in 1..8 |-> envVars(<<>>, "")[i][1]]

\* analyzeChanges
analyzeChanges(files, smtpHost, generated) ==
    LET path    == envTargetPath(files)
        content == files[path][1]
        result  == updateEnvVars(content,
                        envVars(getOrGenerateApiKey(content, generated), smtpHost))
        toml    == findConfigToml(files)
    IN  [envFile |->
            IF files[path] # Undefined
            THEN IF Len(result.newVars) > 0 \/ Len(result.updatedVars) > 0
                 THEN Some([path |-> path, newVars |-> result.newVars,
                            updatedVars |-> result.updatedVars])
                 ELSE Undefined
            ELSE Some([path |-> path, newVars |-> AllEnvKeys, updatedVars |-> <<>>]),
         configToml |->
            IF toml = Undefined THEN Undefined
            ELSE Some([path   |-> toml[1],
                       action |-> IF smtpSectionStart(files[toml[1]][1]) = 0
                                  THEN "append" ELSE "update"])]

\* applyChanges: the files after the writes
applyChanges(files, smtpHost, changes, generated) ==
    LET envPath    == changes.envFile[1].path
        envContent == IF files[envPath] # Undefined THEN files[envPath][1]
                      ELSE <<BlankEnvLine>>
        envResult  == updateEnvVars(envContent,
                        envVars(getOrGenerateApiKey(envContent, generated), smtpHost))
        withEnv    == IF changes.envFile = Undefined THEN files
                      ELSE [files EXCEPT ![envPath] = Some(envResult.content)]
        tomlPath   == changes.configToml[1].path
        tomlContent == IF withEnv[tomlPath] # Undefined THEN withEnv[tomlPath][1]
                       ELSE <<BlankTomlLine>>
    IN  IF changes.configToml = Undefined THEN withEnv
        ELSE [withEnv EXCEPT ![tomlPath] = Some(updateConfigToml(tomlContent).content)]

\* the paths applyChanges writes
writtenPaths(changes) ==
    {changes.envFile[i].path : i \in 1..Len(changes.envFile)}
        \cup {changes.configToml[i].path : i \in 1..Len(changes.configToml)}

\* no run of init
NoInit == [phase |-> "idle"]

\* the keys nanoid generates
GeneratedKeys == {<<"re_V1StGXR8">>, <<"re_Z5jdHi6B">>}

\* the answers typed at the prompt
Answers ==
    {<<"y">>, <<"Y">>, <<"y", "e", "s">>, <<"Y", "e", "s">>, <<"n">>, <<>>,
     <<"y", " ">>}

\* initCommand up to the prompt, or to its early return when analyzeChanges
\* proposes no change
InitCommand ==
    \E generated \in GeneratedKeys :
        LET smtpHost == detectSmtpHost(init.files)
            changes  == analyzeChanges(init.files, smtpHost, generated)
            none     == changes.envFile = Undefined /\ changes.configToml = Undefined
        IN  /\ init.phase \in {"started", "exited"}
            /\ init.run < MaxInitRuns
            /\ init' = [phase    |-> IF none THEN "exited" ELSE "prompt",
                        run      |-> init.run + 1,
                        files    |-> init.files,
                        before   |-> init.files,
                        changes  |-> changes,
                        answer   |-> <<>>,
                        outcome  |-> IF none THEN "already configured" ELSE "asked",
                        previous |-> init.outcome,
                        written  |-> {}]
            /\ UNCHANGED <<emails, inflight, parsing, resp, pre, created, removed,
                           rejected, inputs, proc, arrivals>>

\* initCommand resumed when the promise of askConfirmation resolves
InitConfirmed ==
    \E answer \in Answers, generated \in GeneratedKeys :
        /\ init.phase = "prompt"
        /\ init' = IF askConfirmation(answer)
                   THEN [init EXCEPT
                            !.phase = "exited",
                            !.answer = answer,
                            !.outcome = "applied",
                            !.files = applyChanges(init.files, detectSmtpHost(init.files),
                                                   init.changes, generated),
                            !.written = writtenPaths(init.changes)]
                   ELSE [init EXCEPT !.phase = "exited", !.answer = answer,
                                     !.outcome = "cancelled"]
        /\ UNCHANGED <<emails, inflight, parsing, resp, pre, created, removed,
                       rejected, inputs, proc, arrivals>>

\* an env file that a run of init leaves as it is
ConfiguredEnv(smtpHost) ==
    updateEnvVars(<<BlankEnvLine>>, envVars(<<"re_existing">>, smtpHost)).content

\* the env files of the projects
EnvContents ==
    {Undefined,
     Some(<<BlankEnvLine>>),
     Some(<<EnvLine("RESEND_API_KEY", <<" ", "re_existing", " ">>)>>),
     Some(<<EnvLine("DATABASE_URL", <<"postgres://x">>),
            EnvLine("SMTP_HOST", <<"smtp.example.com">>),
            EnvLine("RESEND_API_KEY", <<>>),
            BlankEnvLine>>),
     Some(ConfiguredEnv("127.0.0.1")),
     Some(ConfiguredEnv("host.docker.internal"))}

\* the config.toml files of the projects: with an [auth] section and other
\* sections, with an [auth.email.smtp] section of other keys, with the
\* header as the last line, with the section of init
TomlContents ==
    {Undefined,
     Some(<<TomlHeader("[api]"), TomlKey("port = 54321"), BlankTomlLine,
            TomlHeader("[auth]"), TomlKey("site_url = \"http://localhost\""),
            TomlHeader("[db]"), TomlKey("port = 54322"), BlankTomlLine>>),
     Some(<<SmtpSectionHeader, TomlKey("enabled = false"), TomlKey("host = \"smtp.x\""),
            BlankTomlLine, TomlHeader("[db]"), BlankTomlLine>>),
     Some(<<TomlHeader("[db]"), SmtpSectionHeader>>),
     Some(smtpSection \o <<BlankTomlLine>>)}

\* the projects init runs in
Projects ==
    [envLocal     : {Undefined, Some(ConfiguredEnv("127.0.0.1"))},
     env          : EnvContents,
     supabaseToml : TomlContents \ {Some(<<TomlHeader("[db]"), SmtpSectionHeader>>)},
     rootToml     : {Undefined, Some(<<TomlHeader("[db]"), SmtpSectionHeader>>)}]

-----------------------------------------------------------------------------
(* Specifications *)

Start ==
    /\ emails = createStore
    /\ inflight = <<>>
    /\ parsing = <<>>
    /\ rejected = {}
    /\ resp = [op |-> "none", status |-> 0]
    /\ pre = <<>>
    /\ created = <<>>
    /\ removed = {}
    /\ arrivals = <<>>

Init == Start /\ proc = Running /\ inputs = "store" /\ init = NoInit

InitApi == Start /\ proc = Running /\ inputs \in DOMAIN ApiInputs /\ init = NoInit

InitSmtp == Start /\ proc = Running /\ inputs = "smtp" /\ init = NoInit

InitCli == Start /\ proc = Starting /\ inputs = "cli" /\ init = NoInit

InitLive == Start /\ proc = Running /\ inputs = "live" /\ init = NoInit

Next ==
    \/ PostEmails
    \/ RenderSettled
    \/ GetEmails
    \/ GetEmail
    \/ DeleteEmails
    \/ DeleteEmail
    \/ GetConfig
    \/ SmtpConnect
    \/ SmtpMailFrom
    \/ SmtpRcptTo
    \/ SmtpData
    \/ SmtpParsed

Spec == Init /\ [][Next]_vars

SpecApi == InitApi /\ [][Next]_vars

SpecSmtp == InitSmtp /\ [][Next]_vars

\* the start command from its first step: the handlers, the settling of the
\* two listen calls and the faults of the transports
NextCli ==
    \/ Next
    \/ HttpListening
    \/ HttpServerError
    \/ HttpClientError
    \/ SmtpListening
    \/ SmtpServerError
    \/ SmtpSocketFault
    \/ UncaughtException

SpecCli == InitCli /\ [][NextCli]_vars

\* the init command in a project, run up to MaxInitRuns times while the start
\* command is not running
InitInit ==
    /\ Start
    /\ proc = [alive |-> FALSE, http |-> "closed", smtp |-> "closed"]
    /\ inputs = "cli"
    /\ \E files \in Projects :
        init = [phase    |-> "started",
                run      |-> 0,
                files    |-> files,
                before   |-> files,
                changes  |-> [envFile |-> Undefined, configToml |-> Undefined],
                answer   |-> <<>>,
                outcome  |-> "none",
                previous |-> "none",
                written  |-> {}]

NextInit == InitCommand \/ InitConfirmed

SpecInit == InitInit /\ [][NextInit]_vars

\* the promise of renderReactEmail and the promise of simpleParser settle, and
\* the event loop then runs the continuation of the handler
SpecLive ==
    /\ InitLive
    /\ [][Next]_vars
    /\ WF_vars(RenderSettled)
    /\ WF_vars(SmtpParsed)

-----------------------------------------------------------------------------
(* String operations the properties are stated with *)

\* str.includes(sub)
includes(str, sub) ==
    \E i \in 0..(Len(str) - Len(sub)) : SubSeq(str, i + 1, i + Len(sub)) = sub

\* some address of the record's `to` contains sub, whatever the case
MatchesRecipient(email, sub) ==
    \E i \in 1..Len(email.to) :
        includes(toLowerCase(email.to[i]), toLowerCase(sub))

Occurs(x, seq) == \E i \in 1..Len(seq) : seq[i] = x

IdsOf(store) == {store[i].id : i \in 1..Len(store)}

-----------------------------------------------------------------------------
(* Properties *)

\* C1: GET /sandbox/emails?to=S returns a stored record if and only if one of
\* its `to` addresses contains S as a case-insensitive substring; with no
\* filter it returns every record.
C1_FilterByRecipient ==
    resp.op = "list" =>
        \A i \in 1..Len(emails) :
            Occurs(emails[i], resp.body.emails)
                <=> (resp.to = Undefined \/ MatchesRecipient(emails[i], resp.to[1]))

\* out is the stable sort of store on createdAt, newest first
IsStableNewestFirst(out, store) ==
    /\ Len(out) = Len(store)
    /\ \A i \in 1..Len(store) : Occurs(store[i], out)
    /\ \A i \in 1..(Len(out) - 1) : out[i].createdAt >= out[i + 1].createdAt
    /\ \A i, j \in 1..Len(out) :
        (i < j /\ out[i].createdAt = out[j].createdAt)
            => \E k, l \in 1..Len(store) :
                    k < l /\ store[k] = out[i] /\ store[l] = out[j]

\* C2: after any sequence of inserts, deletes and clears the list operation
\* returns exactly the stored records, newest first on createdAt, records with
\* an equal createdAt in their insertion order.
C2_ListNewestFirstStable ==
    resp.op = "list" => IsStableNewestFirst(resp.body.emails, emails)

\* a list of three records whose store order is not the order returned: the
\* oldest first, then two records with the same createdAt
C2_Witness ==
    /\ resp.op = "list"
    /\ Len(emails) = 3
    /\ emails[1].createdAt < emails[2].createdAt
    /\ emails[2].createdAt = emails[3].createdAt
    /\ resp.body.emails = <<emails[2], emails[3], emails[1]>>

\* C3: no two records ever created share an id, also after deletes and clears.
C3_IdsUnique ==
    \A i, j \in 1..Len(created) :
        i # j => created[i].email.id # created[j].email.id

\* a record created after the store was cleared of an earlier record
C3_Witness ==
    /\ resp.op = "post"
    /\ resp.status = 200
    /\ removed # {}
    /\ pre = <<>>
    /\ Len(created) >= 2
    /\ Len(emails) = 1

\* the request a created record came from, and the record as created
RequestOf(id) == (CHOOSE i \in 1..Len(created) : created[i].email.id = id)

\* a required field of the payload is missing or empty
RequiredMissingOrEmpty(payload) ==
    \/ payload.from \in {Undefined, Some("")}
    \/ payload.subject \in {Undefined, Some("")}
    \/ payload.to.kind = "absent"
    \/ payload.to.v = <<>>
    \/ payload.to.kind = "str" /\ payload.to.v[1] = <<>>

\* C4: a POST /emails in which from, to or subject is missing or empty is
\* answered 400 with the missing-fields message and leaves the store unchanged.
C4_MissingFieldsRejected ==
    (resp.op = "post" /\ RequiredMissingOrEmpty(resp.req)) =>
        /\ resp.status = 400
        /\ resp.body = [message |-> "Missing required fields: from, to, subject"]
        /\ emails = pre

\* C5: the stored `to` of a valid POST /emails is a sequence: [to] when `to`
\* was a single string, the given sequence in its order when it was a sequence.
C5_ToIsSequence ==
    \A i \in 1..Len(created) :
        LET to     == created[i].payload.to
            stored == created[i].email.to
        IN  /\ DOMAIN stored = 1..Len(stored)
            /\ to.kind = "str" => stored = <<to.v[1]>>
            /\ to.kind = "arr" => stored = to.v
            /\ \A k \in 1..Len(emails) :
                emails[k].id = created[i].email.id => emails[k].to = stored

\* a stored record whose `to` was given as a sequence of two addresses
C5_Witness ==
    /\ resp.op = "post"
    /\ resp.status = 200
    /\ resp.req.to = Arr(<<vAtX, UserAtX>>)
    /\ emails # <<>>
    /\ emails[Len(emails)].to = <<vAtX, UserAtX>>

\* C6: every record stored through POST /emails has a non-empty `to`; a payload
\* whose `to` is empty, the empty sequence included, is answered 400 and never
\* stored.
C6_StoredToNonEmpty ==
    /\ \A i \in 1..Len(created) :
        created[i].email.source = "resend" => created[i].email.to # <<>>
    /\ (resp.op = "post" /\ resp.req.to.v = <<>>) => resp.status = 400

OptionalFields == {"cc", "bcc", "replyTo"}

\* C7 as stated: an omitted cc, bcc or replyTo is stored absent, and one given
\* as a single string is stored as the one-element sequence of that string.
C7_OptionalAsStated ==
    \A i \in 1..Len(created), f \in OptionalFields :
        LET given == created[i].payload[f] IN
        /\ given.kind = "absent" => created[i].email[f] = Undefined
        /\ given.kind = "str" => created[i].email[f] = Some(<<given.v[1]>>)

\* C7, amended: an omitted cc, bcc or replyTo, and one given as the empty
\* string, is stored absent; one given as a single non-empty string is stored
\* as the one-element sequence of that string.
C7_OptionalNormalized ==
    \A i \in 1..Len(created), f \in OptionalFields :
        LET given == created[i].payload[f] IN
        /\ given.kind = "absent" => created[i].email[f] = Undefined
        /\ (given.kind = "str" /\ given.v[1] = <<>>) => created[i].email[f] = Undefined
        /\ (given.kind = "str" /\ given.v[1] # <<>>)
            => created[i].email[f] = Some(<<given.v[1]>>)

\* a stored record with cc given as a string, bcc and replyTo omitted
C7_Witness ==
    /\ resp.op = "post"
    /\ resp.status = 200
    /\ resp.req.cc = Str(vAtX)
    /\ resp.req.bcc = Absent
    /\ emails # <<>>
    /\ emails[Len(emails)].cc = Some(<<vAtX>>)
    /\ emails[Len(emails)].bcc = Undefined
    /\ emails[Len(emails)].replyTo = Undefined

\* the `to` a request asks for, as a sequence
RequestedTo(payload) ==
    IF payload.to.kind = "str" THEN <<payload.to.v[1]>> ELSE payload.to.v

\* Date.parse of an ISO-8601 rendering: the milliseconds since the epoch
daysFromCivil(year, month, day) ==
    LET y   == IF month <= 2 THEN year - 1 ELSE year
        era == y \div 400
        yoe == y - era * 400
        mp  == IF month > 2 THEN month - 3 ELSE month + 9
        doy == ((153 * mp + 2) \div 5) + day - 1
        doe == yoe * 365 + (yoe \div 4) - (yoe \div 100) + doy
    IN  era * 146097 + doe - 719468

DateParse(iso) ==
    daysFromCivil(iso.year, iso.month, iso.day) * MsPerDay
        + iso.hour * 3600000 + iso.minute * 60000 + iso.second * 1000 + iso.millis

\* the fields of a YYYY-MM-DDTHH:mm:ss.sssZ rendering are in range
IsISO8601(iso) ==
    /\ iso.month \in 1..12
    /\ iso.day \in 1..31
    /\ iso.hour \in 0..23
    /\ iso.minute \in 0..59
    /\ iso.second \in 0..59
    /\ iso.millis \in 0..999

\* C8: the id of a 200 response of POST /emails, passed to GET
\* /sandbox/emails/:id before the record is deleted, returns a record whose
\* subject, from and to are the request's, and the response's to, from and
\* ISO-8601 created_at are the stored record's to, from and createdAt.
C8_RoundTrip ==
    /\ (resp.op = "post" /\ resp.status = 200) =>
        LET got == GetEmailResponse(emails, resp.body.id) IN
        /\ got.status = 200
        /\ got.body.email.subject = resp.req.subject
        /\ got.body.email.from = resp.req.from
        /\ got.body.email.to = RequestedTo(resp.req)
        /\ resp.body.to = got.body.email.to
        /\ resp.body.from = got.body.email.from
        /\ IsISO8601(resp.body.created_at)
        /\ DateParse(resp.body.created_at) = got.body.email.createdAt
    /\ \A i \in 1..Len(created) :
        LET id  == created[i].email.id
            got == GetEmailResponse(emails, id)
        IN  (id \notin removed /\ created[i].email.source = "resend") =>
                /\ got.status = 200
                /\ got.body.email.id = id
                /\ got.body.email.subject = created[i].payload.subject
                /\ got.body.email.from = created[i].payload.from
                /\ got.body.email.to = RequestedTo(created[i].payload)
    /\ (resp.op = "get" /\ resp.status = 200 /\ resp.body.email.source = "resend") =>
        /\ resp.id \in {created[i].email.id : i \in 1..Len(created)}
        /\ resp.body.email.subject = created[RequestOf(resp.id)].payload.subject
        /\ resp.body.email.from = created[RequestOf(resp.id)].payload.from
        /\ resp.body.email.to = RequestedTo(created[RequestOf(resp.id)].payload)

\* a GET of the id a POST returned, for a record created at 1 day, 1 hour,
\* 1 minute, 1 second and 1 millisecond after the epoch
C8_Witness ==
    /\ resp.op = "get"
    /\ resp.status = 200
    /\ resp.body.email.createdAt = 90061001
    /\ toISOString(resp.body.email.createdAt) =
        [year |-> 1970, month |-> 1, day |-> 2, hour |-> 1, minute |-> 1,
         second |-> 1, millis |-> 1]
    /\ resp.body.email.to = <<vAtX, UserAtX>>

\* C9: DELETE /sandbox/emails answers 200 and leaves the store empty, whatever
\* the store held, an empty store included.
C9_ClearAlwaysSucceeds ==
    resp.op = "clear" =>
        /\ resp.status = 200
        /\ emails = <<>>
        /\ GetEmailsBody(emails) = <<>>

\* a clear of a store that an earlier clear or delete had already emptied
C9_Witness ==
    /\ resp.op = "clear"
    /\ resp.status = 200
    /\ pre = <<>>
    /\ Cardinality(removed) >= 2
    /\ emails = <<>>

\* C10: DELETE /sandbox/emails/:id of a stored id answers 200 and removes that
\* record only: a GET of the id then answers 404, and the other records stay,
\* unchanged and in their order.
C10_DeleteOne ==
    resp.op = "delete" =>
        /\ resp.status = 200 <=> resp.id \in IdsOf(pre)
        /\ resp.status = 200 =>
            /\ Len(emails) = Len(pre) - 1
            /\ emails = SelectSeq(pre, LAMBDA e : e.id # resp.id)
            /\ GetEmailResponse(emails, resp.id).status = 404

\* the middle one of three records is deleted
C10_Witness ==
    /\ resp.op = "delete"
    /\ resp.status = 200
    /\ Len(pre) = 3
    /\ pre[2].id = resp.id
    /\ emails = <<pre[1], pre[3]>>

\* C11: GET and DELETE /sandbox/emails/:id of an id that is the id of no stored
\* record (an id that only starts with a stored id included) answer 404 with
\* {error: "Email not found"} and leave the store unchanged.
C11_UnknownIdNotFound ==
    (resp.op \in {"get", "delete"} /\ resp.id \notin IdsOf(pre)) =>
        /\ resp.status = 404
        /\ resp.body = NotFound
        /\ emails = pre

\* a DELETE of an id that starts with the id of a stored record
C11_Witness ==
    /\ resp.op = "delete"
    /\ resp.id = LongerId
    /\ resp.id \div 10 \in IdsOf(pre)
    /\ resp.status = 404
    /\ Len(emails) >= 2
    /\ emails = pre

\* C12: whenever POST /emails answers 500, the store holds no record created
\* by that request: the store is as it was before the request.
C12_ServerErrorStoresNothing ==
    (resp.op = "post" /\ resp.status = 500) =>
        /\ emails = pre
        /\ \A i \in 1..Len(created) : created[i].payload # resp.req

\* the payload has a react value other than null
ReactPresent(payload) == payload.react # Undefined /\ payload.react[1].truthy

\* the renderer fails on the react value of the payload
RendererFails(payload) ==
    payload.react[1].type = Some("{toString: 1, valueOf: 1}")

\* C13: a valid POST /emails with html absent and react present invokes the
\* renderer and is answered 200 with exactly one record stored: its html is
\* the rendering, and is absent when the renderer fails.
C13_RenderFailureTolerated ==
    (/\ resp.op = "post"
     /\ ~RequiredMissingOrEmpty(resp.req)
     /\ resp.req.html = Undefined
     /\ ReactPresent(resp.req)) =>
        \/ /\ resp.status = 0
           /\ \E i \in 1..Len(inflight) : inflight[i].payload = resp.req
           /\ emails = pre
        \/ /\ resp.status = 200
           /\ Len(emails) = Len(pre) + 1
           /\ SubSeq(emails, 1, Len(pre)) = pre
           /\ emails[Len(emails)].id = resp.body.id
           /\ emails[Len(emails)].html =
                IF RendererFails(resp.req) THEN Undefined
                ELSE Some(renderReactEmail(resp.req.react[1]))

\* a request answered 200 after its renderer failed, stored without html
C13_Witness ==
    /\ resp.op = "post"
    /\ resp.status = 200
    /\ resp.req.html = Undefined
    /\ ReactPresent(resp.req)
    /\ RendererFails(resp.req)
    /\ Len(emails) = Len(pre) + 1
    /\ emails[Len(emails)].html = Undefined

\* C14: the record stored for a valid POST /emails without a react field has
\* the text and the html of the payload, each absent when the payload omitted
\* it; a payload with neither is answered 200 and stored with both absent and
\* the source tag "resend".
C14_BodyVerbatim ==
    /\ \A i \in 1..Len(created) :
        (created[i].email.source = "resend" /\ created[i].payload.react = Undefined) =>
            /\ created[i].email.text = created[i].payload.text
            /\ created[i].email.html = created[i].payload.html
            /\ \A k \in 1..Len(emails) :
                emails[k].id = created[i].email.id =>
                    /\ emails[k].text = created[i].payload.text
                    /\ emails[k].html = created[i].payload.html
    /\ (/\ resp.op = "post"
        /\ ~RequiredMissingOrEmpty(resp.req)
        /\ resp.req.react = Undefined
        /\ resp.req.text = Undefined
        /\ resp.req.html = Undefined) =>
            /\ resp.status = 200
            /\ Len(emails) = Len(pre) + 1
            /\ emails[Len(emails)].id = resp.body.id
            /\ emails[Len(emails)].text = Undefined
            /\ emails[Len(emails)].html = Undefined
            /\ emails[Len(emails)].source = "resend"

\* a stored record whose payload gave an empty html and no text
C14_Witness ==
    /\ resp.op = "post"
    /\ resp.status = 200
    /\ resp.req.react = Undefined
    /\ resp.req.text = Undefined
    /\ resp.req.html = Some("")
    /\ emails # <<>>
    /\ emails[Len(emails)].text = Undefined
    /\ emails[Len(emails)].html = Some("")
    /\ emails[Len(emails)].source = "resend"

\* the addresses of the entries of a list that have a non-empty address, in
\* their order
RECURSIVE BareAddresses(_)
BareAddresses(entries) ==
    IF entries = <<>> THEN <<>>
    ELSE (IF Head(entries).address \in {Undefined, Some(<<>>)} THEN <<>>
          ELSE <<Head(entries).address[1]>>) \o BareAddresses(Tail(entries))

\* the bare addresses of the To header of a parsed message
RECURSIVE BareAddressesOfAll(_)
BareAddressesOfAll(objects) ==
    IF objects = <<>> THEN <<>>
    ELSE (IF Head(objects).value = Undefined THEN <<>>
          ELSE BareAddresses(Head(objects).value[1])) \o BareAddressesOfAll(Tail(objects))

\* the first sender of the From header has an address
HasSender(parsed) ==
    /\ parsed.from # Undefined
    /\ parsed.from[1].value[1] # <<>>
    /\ parsed.from[1].value[1][1].address \notin {Undefined, Some("")}

\* C15: a DATA phase whose message parses and inserts adds exactly one record
\* to the store, with source "smtp", from the bare address of the first sender
\* of the From header and to the bare addresses of the To header in their
\* order, and the client is told the message was accepted.
C15_SmtpStoresOne ==
    (resp.op = "data" /\ resp.accepted) =>
        /\ Len(emails) = Len(pre) + 1
        /\ SubSeq(emails, 1, Len(pre)) = pre
        /\ emails[Len(emails)].source = "smtp"
        /\ emails[Len(emails)].id \notin IdsOf(pre)
        /\ emails[Len(emails)].to = BareAddressesOfAll(resp.stream.parsed.to.v)
        /\ HasSender(resp.stream.parsed) =>
            emails[Len(emails)].from = resp.stream.parsed.from[1].value[1][1].address

\* a message whose To header is parsed into several address objects is
\* accepted and stored with their addresses
C15_Witness ==
    /\ resp.op = "data"
    /\ resp.accepted
    /\ resp.stream.parsed.to.kind = "many"
    /\ emails # <<>>
    /\ emails[Len(emails)].source = "smtp"
    /\ emails[Len(emails)].from = Some("ann@x")
    /\ emails[Len(emails)].to = <<userAtY, vAtX>>

\* C16: a DATA phase whose message fails to parse or to insert is answered
\* with an error and leaves the store unchanged; every message that parses
\* and normalizes is accepted, whatever was rejected before it.
C16_SmtpFailureIsolated ==
    /\ (resp.op = "data" /\ ~resp.accepted) => emails = pre
    /\ resp.op = "data" =>
        (resp.accepted <=>
            /\ resp.stream.settles = "resolved"
            /\ ~normalizeSmtpMailThrows(resp.stream.parsed))

\* a message is accepted and stored on a session that had a message rejected,
\* after the other session had one rejected too
C16_Witness ==
    /\ resp.op = "data"
    /\ resp.accepted
    /\ resp.session \in rejected
    /\ Cardinality(rejected) = 2
    /\ Len(emails) = Len(pre) + 1
    /\ emails[Len(emails)].source = "smtp"

\* the From header of the parsed message is absent or lists no sender
MissingSender(parsed) ==
    parsed.from = Undefined \/ parsed.from[1].value = Some(<<>>)

MissingSubject(parsed) == parsed.subject \in {Undefined, Some("")}

\* C17: a parsed message without a sender or without a subject is not
\* rejected for it: it is stored with from "unknown@localhost" when its from
\* list is empty and with subject "(no subject)" when its subject is empty or
\* absent.
C17_SmtpPlaceholders ==
    (/\ resp.op = "data"
     /\ resp.stream.settles = "resolved"
     /\ MissingSender(resp.stream.parsed) \/ MissingSubject(resp.stream.parsed)
     /\ \A f \in {"to", "cc", "bcc", "replyTo"} :
            ~normalizeAddressObjectThrows(resp.stream.parsed[f])) =>
        /\ resp.accepted
        /\ Len(emails) = Len(pre) + 1
        /\ MissingSender(resp.stream.parsed) =>
            emails[Len(emails)].from = Some("unknown@localhost")
        /\ MissingSubject(resp.stream.parsed) =>
            emails[Len(emails)].subject = Some("(no subject)")

\* a message with an empty from list and no subject is accepted and stored
\* with both placeholders
C17_Witness ==
    /\ resp.op = "data"
    /\ resp.accepted
    /\ resp.stream.parsed.from = Some(AddressObject(<<>>))
    /\ resp.stream.parsed.subject = Undefined
    /\ emails # <<>>
    /\ emails[Len(emails)].from = Some("unknown@localhost")
    /\ emails[Len(emails)].subject = Some("(no subject)")

\* C18: the connect, MAIL FROM and RCPT TO hooks accept, in every state and
\* for every session and address.
C18_HooksAccept ==
    resp.op \in {"connect", "mail", "rcpt"} => resp.accepted

\* an empty recipient address is accepted on a session that had a message
\* rejected
C18_Witness ==
    /\ resp.op = "rcpt"
    /\ resp.address.address = Some("")
    /\ resp.accepted
    /\ resp.session \in rejected

\* C19: every record in the store has, in every field, the value it was
\* inserted with.
C19_RecordsImmutable ==
    \A i \in 1..Len(emails) :
        \E j \in 1..Len(created) :
            /\ created[j].email.id = emails[i].id
            /\ created[j].email = emails[i]

\* a record read by id after another record was deleted is the record as
\* inserted
C19_Witness ==
    /\ resp.op = "get"
    /\ resp.status = 200
    /\ removed # {}
    /\ Len(created) >= 2
    /\ \E j \in 1..Len(created) :
        /\ created[j].email.id = resp.id
        /\ created[j].email = resp.body.email
        /\ Occurs(created[j].email, emails)

\* C20: list, get-by-id and config leave the collection of the store as it
\* was, the same records in the same order; the newest-first list is a copy.
C20_ReadsLeaveStore ==
    resp.op \in {"list", "get", "config"} => emails = pre

\* a list whose newest-first order is not the order of the store
C20_Witness ==
    /\ resp.op = "list"
    /\ Len(emails) >= 2
    /\ emails[1].createdAt < emails[2].createdAt
    /\ resp.body.emails # emails
    /\ emails = pre

\* C21: a listener whose port is in use, the HTTP one or the SMTP one, ends
\* the process; every other fault of a transport is logged and leaves the
\* process and its listeners as they were.
C21_BindFailureAborts ==
    /\ (proc.http = "failed" \/ proc.smtp = "failed") => ~proc.alive
    /\ (resp.op = "fault" /\ resp.code # "EADDRINUSE") => proc = resp.proc

\* the last handler step ran the insert step of a request
Inserted == "arrival" \in DOMAIN resp

\* C22: with requests of both producers in flight, the records of the store
\* are in the order in which their insert steps ran, whatever the order of
\* arrival; an insert step adds one complete record after the records that
\* were there and nothing else.
C22_InsertionOrderIsStepOrder ==
    /\ \A i, j \in 1..Len(emails) :
            i < j => \E k, l \in 1..Len(created) :
                        /\ k < l
                        /\ created[k].email = emails[i]
                        /\ created[l].email = emails[j]
    /\ Inserted => emails = Append(pre, created[Len(created)].email)

\* an SMTP message was inserted while a POST /emails request that arrived
\* before it is still suspended
C22_Witness ==
    /\ resp.op = "data" /\ resp.accepted
    /\ resp.arrival = 2
    /\ arrivals = <<"api">>
    /\ emails # <<>> /\ emails[Len(emails)].source = "smtp"

\* the ingestion that created the record was answered as a success: POST
\* /emails with 200, the DATA phase with callback()
Succeeded(entry) ==
    ~(entry.email.source = "resend" /\ logEmailReceivedThrows(entry.email))

\* the records of the ingestions that succeeded
Accepted == {created[k].email : k \in {l \in 1..Len(created) : Succeeded(created[l])}}

\* C23: under every interleaving of the two producers and the deletes the
\* store holds exactly the records of the ingestions that succeeded and were
\* not removed since by a delete with their id or a delete-all, each of them
\* once.
C23_StoreIsAcceptedMinusRemoved ==
    /\ \A i \in 1..Len(emails) :
            emails[i] \in Accepted /\ emails[i].id \notin removed
    /\ \A email \in Accepted :
            email.id \notin removed
                => Cardinality({i \in 1..Len(emails) : emails[i] = email}) = 1

\* the records that were inserted and not removed since
LiveRecords ==
    {created[k].email : k \in {l \in 1..Len(created) : created[l].email.id \notin removed}}

\* C24: the producers and the web API work on the one collection of the
\* store: a list returns every record inserted and not removed since, a
\* get-by-id of such a record returns it, and a record inserted after a
\* delete-all, by a request that arrived after it or was suspended when it
\* ran, is in the store for the next list and get-by-id.
C24_OneSharedStore ==
    /\ resp.op = "list" =>
            \A email \in LiveRecords : Occurs(email, resp.body.emails)
    /\ resp.op = "get" =>
            \A email \in LiveRecords :
                email.id = resp.id => resp.status = 200 /\ resp.body.email = email
    /\ Inserted =>
            LET new == created[Len(created)].email
            IN  /\ Occurs(new, GetEmailsBody(emails))
                /\ GetEmailResponse(emails, new.id).status = 200
                /\ GetEmailResponse(emails, new.id).body.email = new

\* the store was emptied after two records were inserted, and the insert
\* step of a third request has run since: its record is the only one
C24_Witness ==
    /\ Inserted
    /\ Len(created) = 3
    /\ removed = {created[1].email.id, created[2].email.id}
    /\ pre = <<>>
    /\ emails = <<created[3].email>>

\* a header value of the variant String | List | AddressLike
RECURSIVE InVariant(_)
InVariant(value) ==
    \/ value.kind = "str"
    \/ value.kind = "obj" /\ ~FalsyStr(value.address)
    \/ value.kind = "arr" /\ \A i \in 1..Len(value.items) : InVariant(value.items[i])

\* the display string of a value of the variant
RECURSIVE Flattened(_)
Flattened(value) ==
    CASE value.kind = "str" -> value.s
      [] value.kind = "obj" ->
            IF FalsyStr(value.name) THEN value.address[1]
            ELSE value.name[1] \o " <" \o value.address[1] \o ">"
      [] value.kind = "arr" ->
            Join([i \in 1..Len(value.items) |-> Flattened(value.items[i])])

\* C25: every header of a stored SMTP record is a text, never an opaque
\* object: a string as it is, an address-like value as "Name <address>" or
\* as its bare address when it has no display name, a list as its flattened
\* elements joined with ", ", any other object as its serialized text.
C25_HeadersFlattened ==
    \A i \in 1..Len(created) :
        created[i].email.source = "smtp" =>
            \A key \in DOMAIN created[i].payload.headers :
                LET value == created[i].payload.headers[key]
                    out   == created[i].email.raw[1].headers[key]
                IN  /\ out # ObjectObject
                    /\ InVariant(value) => out = Flattened(value)
                    /\ (value.kind = "obj" /\ FalsyStr(value.address)
                            /\ value.value = Undefined /\ FalsyStr(value.text))
                        => out = value.json

\* a stored SMTP record whose headers held a string, address-like values with
\* and without a display name, a nested list and a Date
C25_Witness ==
    \E i \in 1..Len(created) :
        /\ created[i].email.source = "smtp"
        /\ Occurs(created[i].email, emails)
        /\ LET headers == created[i].email.raw[1].headers
           IN  /\ headers["subject"] = "Hello"
               /\ headers["sender"] = "Ann <ann@x>"
               /\ headers["to"] = "u@y"
               /\ headers["cc"] = "Ann <ann@x>, b, u@y"
               /\ headers["date"] = "\"2025-01-01T00:00:00.000Z\""

AddressLists == {"to", "cc", "bcc", "replyTo"}

\* the list stored in a field of a record: the optional fields are absent or
\* hold a list
StoredList(email, field) ==
    IF field = "to" THEN email.to
    ELSE IF email[field] = Undefined THEN <<>> ELSE email[field][1]

\* C26: to, cc, bcc and replyTo of a stored SMTP record are the bare addresses
\* of the parsed list, in its order, without the entries that have no usable
\* address: no stored address is empty or undefined.
C26_AddressesBare ==
    \A i \in 1..Len(created) :
        created[i].email.source = "smtp" =>
            \A field \in AddressLists :
                /\ \A k \in 1..Len(StoredList(created[i].email, field)) :
                        StoredList(created[i].email, field)[k] # <<>>
                /\ created[i].payload[field].kind # "absent" =>
                        StoredList(created[i].email, field)
                            = BareAddressesOfAll(created[i].payload[field].v)

\* a stored SMTP record whose cc, bcc and replyTo lists had entries without an
\* address and entries with an empty address
C26_Witness ==
    \E i \in 1..Len(created) :
        /\ created[i].email.source = "smtp"
        /\ Occurs(created[i].email, emails)
        /\ created[i].payload.cc.kind # "absent"
        /\ Len(created[i].payload.cc.v[1].value[1]) = 3
        /\ created[i].email.cc = Some(<<vAtX>>)
        /\ created[i].email.bcc = Some(<<userAtY, vAtX>>)
        /\ created[i].email.replyTo = Some(<<>>)

\* C27: the callback of a DATA phase is called exactly once, and without an
\* error if and only if the record of that message, and no other, was added
\* to the store: a rejected message leaves no record, a stored message is
\* not rejected.
C27_CallbackOnceAndTruthful ==
    resp.op = "data" =>
        /\ resp.callbacks = 1
        /\ resp.accepted <=>
                /\ created # <<>>
                /\ created[Len(created)].payload = resp.stream.parsed
                /\ created[Len(created)].email.source = "smtp"
                /\ emails = Append(pre, created[Len(created)].email)
        /\ ~resp.accepted => emails = pre

\* a message that parsed and made normalizeSmtpMail throw was answered with
\* one callback(err), and the store holds no record
C27_Witness ==
    /\ resp.op = "data"
    /\ ~resp.accepted
    /\ resp.callbacks = 1
    /\ resp.stream.settles = "resolved"
    /\ normalizeSmtpMailThrows(resp.stream.parsed)
    /\ rejected = {resp.session}
    /\ created = <<>>
    /\ emails = <<>>

\* the requests and DATA phases that wait for an answer
Pending == Len(inflight) + Len(parsing)

\* a step answers the request it takes up, or suspends it; a suspended
\* request leaves with its one response, a DATA phase with its one callback
AnswersOrSuspends ==
    /\ Len(inflight') < Len(inflight) =>
            /\ Len(inflight') = Len(inflight) - 1
            /\ resp'.op = "post" /\ resp'.status \in {200, 500}
    /\ Len(parsing') < Len(parsing) =>
            /\ Len(parsing') = Len(parsing) - 1
            /\ resp'.op = "data" /\ resp'.callbacks = 1
    /\ resp'.op = "post" =>
            \/ resp'.status \in {200, 400, 500}
            \/ resp'.status = 0 /\ Len(inflight') = Len(inflight) + 1
    /\ resp'.op = "data-begin" => Len(parsing') = Len(parsing) + 1

\* C28: every POST /emails request is answered once, with 200, 400 or 500, in
\* the step that takes it up or, when it was suspended, eventually; every DATA
\* phase eventually has its callback called once: provided the renderer and
\* the parser settle, no request stays unanswered.
C28_EveryIngestionCompletes ==
    /\ [][AnswersOrSuspends]_vars
    /\ (Pending > 0) ~> (Pending = 0)

\* a request that was suspended and a message were both answered and stored,
\* and nothing is waiting
C28_Witness ==
    /\ resp.op = "post"
    /\ resp.status = 200
    /\ ReactPresent(resp.req)
    /\ Pending = 0
    /\ Len(created) = 2
    /\ \E i \in 1..2 : created[i].email.source = "smtp"

\* the prompt of the last run of init was answered
InitAnswered == init.phase = "exited" /\ init.outcome \in {"applied", "cancelled"}

FullyConfigured(files) ==
    LET path == envTargetPath(files)
        toml == findConfigToml(files)
    IN  /\ files[path] # Undefined
        /\ \A generated \in GeneratedKeys :
                updateEnvVars(files[path][1],
                    envVars(getOrGenerateApiKey(files[path][1], generated),
                            detectSmtpHost(files))).content = files[path][1]
        /\ toml # Undefined =>
                updateConfigToml(files[toml[1]][1]).content = files[toml[1]][1]

\* C30: in a project that is fully configured, and in the run that follows a
\* confirmed run, init reports that no changes are needed and returns without
\* a prompt and without a write.
C30_NoChangesNeeded ==
    (/\ init.phase \in {"prompt", "exited"}
     /\ FullyConfigured(init.before) \/ init.previous = "applied")
        => /\ init.phase = "exited"
           /\ init.outcome = "already configured"
           /\ init.written = {}

====
